---- MODULE Spec2Model ----
(***************************************************************************)
(* A model of timetagger_mcp.py: the MCP tools manage_record,              *)
(* get_updates_since, get_records, get_server_time, manage_settings and    *)
(* analyze_time, running as concurrent invocations against one remote      *)
(* TimeTagger server.  Every HTTP exchange is one atomic step on the        *)
(* server; the local computation of a tool between two exchanges belongs    *)
(* to the step of the exchange that follows it.                             *)
(***************************************************************************)
EXTENDS Integers, Sequences, FiniteSets, TLC

(* ------------------------------ bounds -------------------------------- *)

\* The clock (time.time()) runs over 1..MaxTime.
MaxTime == 2

\* Tool invocations in one run of the tools at large.
MaxCalls == 1

\* Tool invocations in one run of the calls on a single record.
MaxPairCalls == 2

\* Records the server holds when a summary is asked for.
MaxRecords == 2

\* Concurrent invocations (MCP requests in flight).
Procs == {"p1", "p2"}

\* The key space of uuid4().hex[:8], cut down to two keys.
Keys == {"k1", "k2"}

\* Setting keys and values.
SettingKeys == {"s1"}
SettingValues == {"v1", "v2"}

(* ------------------------- optional values ---------------------------- *)

\* Python's Optional[T]: None is the empty set, a value v is {v}.
None == {}
Some(v) == {v}
Opt(S) == {None} \cup {Some(v) : v \in S}
IsNone(o) == o = None
Val(o) == CHOOSE v \in o : TRUE
\* `x if x is not None else d`
OrElse(o, d) == IF IsNone(o) THEN d ELSE Val(o)

(* --------------------------- descriptions ----------------------------- *)

\* A description is a sequence of symbols: the marker text "HIDDEN", a
\* space, the tag sign "#" and a letter.
HIDDEN == <<"HIDDEN">>
SPACE == " "

\* str.startswith
StartsWith(s, prefix) ==
    /\ Len(s) >= Len(prefix)
    /\ SubSeq(s, 1, Len(prefix)) = prefix

\* Descriptions a caller passes.
DescInputs ==
    { <<"w">>, <<"HIDDEN", "w">> }

\* start_time / end_time values a caller passes.
TimeInputs == {0}

(* ------------------------------- state -------------------------------- *)

VARIABLES
    store,      \* the server's records: a function from the stored keys to records
    settings,   \* the server's settings: a function from the stored keys to settings
    clock,      \* time.time(), shared by clients and server
    budget,     \* tool invocations that may still start
    inv,        \* per process: the frame of the invocation it is in the middle of
    last        \* the frame of the invocation that returned or raised last

vars == <<store, settings, clock, budget, inv, last>>

\* The frame of a process that runs nothing.  `replaced` is the row the
\* server held under the key of the PUT when the PUT arrived.
IdleInv ==
    [ pc |-> "idle", tool |-> "none", args |-> <<>>, now |-> 0,
      current_record |-> None, sent |-> None, replaced |-> None,
      status |-> 0, accepted |-> {},
      outcome |-> "none", error |-> "none", result |-> None,
      listed |-> {}, data |-> <<>>,
      calls |-> 0, puts |-> 0 ]

\* Rows the server may hold when the tools start: a running timer with a tag,
\* a closed record hidden by an earlier hide, a record whose text starts with
\* the marker without a space.
Running(k) == [key |-> k, t1 |-> 1, t2 |-> 1, ds |-> <<"#", "w">>, mt |-> 1, st |-> 1]
HiddenRow(k) ==
    [key |-> k, t1 |-> 0, t2 |-> 1, ds |-> <<"HIDDEN", " ", "w">>, mt |-> 1, st |-> 1]
Marked(k) == [key |-> k, t1 |-> 1, t2 |-> 1, ds |-> <<"HIDDEN", "w">>, mt |-> 1, st |-> 1]

\* What the server may hold when the tools start.
InitStores ==
    { <<>>,
      [k \in {"k1"} |-> Running(k)],
      [k \in {"k1"} |-> Marked(k)],
      [k \in {"k1", "k2"} |-> IF k = "k1" THEN Running(k) ELSE HiddenRow(k)] }

\* The tools at large: any one of the stores, one caller, MaxCalls invocations.
Init ==
    /\ store \in InitStores
    /\ settings = <<>>
    /\ clock = 1
    /\ budget = MaxCalls
    /\ inv = [p \in {"p1"} |-> IdleInv]
    /\ last = IdleInv

\* The calls on a single record: one record stored, two callers whose calls
\* may overlap, MaxPairCalls invocations.
InitPair ==
    /\ store \in { [k \in {"k1"} |-> Running(k)], [k \in {"k1"} |-> Marked(k)] }
    /\ settings = <<>>
    /\ clock = 1
    /\ budget = MaxPairCalls
    /\ inv = [p \in Procs |-> IdleInv]
    /\ last = IdleInv

(* --------------------------- the remote server ------------------------- *)

\* What the server may answer to a PUT of the item under `key`: accepted,
\* answered 200 without accepting it, or a non-200 status.
PutResponses(key) ==
    { [status |-> 200, accepted |-> {key}],
      [status |-> 200, accepted |-> {}],
      [status |-> 500, accepted |-> {}] }

\* Status of a GET.
GetStatuses == {200, 500}

\* The server's table after a PUT of `item`: an accepted item is stored under
\* its key with the server's time stamp, every other row is left alone.
ServerPut(table, item, resp, st) ==
    IF resp.status = 200 /\ item.key \in resp.accepted
    THEN [k \in DOMAIN table \cup {item.key} |->
            IF k = item.key THEN [item EXCEPT !.st = st] ELSE table[k]]
    ELSE table

\* The row of `table` under `key`, if any.
Row(table, key) == IF key \in DOMAIN table THEN Some(table[key]) ELSE None

\* GET /updates?since=since: the records stamped after `since`.
ServerUpdates(since) == {store[k] : k \in {x \in DOMAIN store : store[x].st > since}}

\* GET /records?timerange=t1-t2: the records that overlap the range.
ServerRecords(t1, t2) ==
    {store[k] : k \in {x \in DOMAIN store : store[x].t1 <= t2 /\ store[x].t2 >= t1}}

(* ---------------------------- manage_record ---------------------------- *)

ValidActions == {"create", "update", "hide", "start", "stop"}

\* The record a create sends.
NewRecord(record_key, description, start_time, end_time, now) ==
    LET t1 == OrElse(start_time, now)
        t2 == OrElse(end_time, t1)
    IN  [key |-> record_key, t1 |-> t1, t2 |-> t2, ds |-> description,
         mt |-> now, st |-> 0]

\* FindRecord without the test of the key: the first record fetched.
FindFirst(records, key) ==
    IF records # {} THEN Some(CHOOSE r \in records : TRUE) ELSE None

\* The loop over the fetched records: the record with the matching key, or None.
FindRecord(records, key) ==
    IF \E r \in records : r.key = key
    THEN Some(CHOOSE r \in records : r.key = key)
    ELSE None

\* HideDescription without the test for the marker.
HideAlways(ds) == <<"HIDDEN", SPACE>> \o ds

\* HideDescription as a toggle: a hidden description loses its marker.
HideToggle(ds) ==
    IF ~StartsWith(ds, HIDDEN) THEN <<"HIDDEN", SPACE>> \o ds ELSE Tail(ds)

\* The description a hide writes.
HideDescription(ds) ==
    IF ~StartsWith(ds, HIDDEN) THEN <<"HIDDEN", SPACE>> \o ds ELSE ds

\* The description after the action's branch.
ActionDescription(action, description, cur) ==
    CASE action = "hide" -> Some(HideDescription(cur.ds))
      [] action = "stop" -> Some(cur.ds)
      [] OTHER -> description

\* ActionEndTime without the stop branch.
EndTimeKept(action, end_time, now) == end_time

\* The end time after the action's branch.
ActionEndTime(action, end_time, now) ==
    IF action = "stop" THEN Some(now) ELSE end_time

\* UpdatedRecord with an omitted end time defaulting to now, as in a create.
UpdatedRecordEndNow(action, key, description, start_time, end_time, cur, now) ==
    LET d == ActionDescription(action, description, cur)
        e == ActionEndTime(action, end_time, now)
    IN  [key |-> key,
         t1 |-> OrElse(start_time, cur.t1),
         t2 |-> OrElse(e, now),
         ds |-> OrElse(d, cur.ds),
         mt |-> now, st |-> 0]

\* UpdatedRecord under a newly drawn key, as in a create.
UpdatedRecordNewKey(action, key, description, start_time, end_time, cur, now) ==
    LET d == ActionDescription(action, description, cur)
        e == ActionEndTime(action, end_time, now)
    IN  [key |-> CHOOSE k \in Keys : k # key,
         t1 |-> OrElse(start_time, cur.t1),
         t2 |-> OrElse(e, cur.t2),
         ds |-> OrElse(d, cur.ds),
         mt |-> now, st |-> 0]

\* The record an update, hide or stop sends.
UpdatedRecord(action, key, description, start_time, end_time, cur, now) ==
    LET d == ActionDescription(action, description, cur)
        e == ActionEndTime(action, end_time, now)
    IN  [key |-> key,
         t1 |-> OrElse(start_time, cur.t1),
         t2 |-> OrElse(e, cur.t2),
         ds |-> OrElse(d, cur.ds),
         mt |-> now, st |-> 0]

\* PutOutcome without the test of the accepted keys.
PutOutcomeAny200(resp, key) ==
    IF resp.status = 200 THEN "ok" ELSE "http"

\* How a tool ends after a PUT of the item under `key`.
PutOutcome(resp, key) ==
    IF resp.status = 200
    THEN IF key \in resp.accepted THEN "ok" ELSE "rejected"
    ELSE "http"

\* A tool's frame at entry.
Enter(tool, args) ==
    [IdleInv EXCEPT !.pc = "done", !.tool = tool, !.args = args, !.now = clock]

\* The frame of a tool that raised.
Raise(r, kind) == [r EXCEPT !.pc = "done", !.outcome = "error", !.error = kind]

\* The frame after the PUT of `item` was answered with `resp`; `table` is the
\* server's table when the PUT arrived.
AfterPut(r, item, resp, table) ==
    LET o == PutOutcome(resp, item.key)
    IN  [r EXCEPT !.pc = "done", !.sent = Some(item), !.replaced = Row(table, item.key),
                  !.status = resp.status,
                  !.accepted = resp.accepted, !.calls = @ + 1, !.puts = @ + 1,
                  !.outcome = IF o = "ok" THEN "ok" ELSE "error",
                  !.error = IF o = "ok" THEN "none" ELSE o,
                  !.result = IF o = "ok" THEN Some(item) ELSE None]

\* A process may start an invocation when it runs none.  The processes are
\* interchangeable, so the second one is taken only to overlap the first.
CanCall(p) ==
    /\ inv[p].pc = "idle"
    /\ budget > 0
    /\ p = "p2" => inv["p1"].pc # "idle"

\* The invocation of p ends with frame r.
Finish(p, r) ==
    /\ last' = r
    /\ inv' = [inv EXCEPT ![p] = IdleInv]

RecordArgs(action, description, start_time, end_time, key) ==
    [action |-> action, description |-> description, start_time |-> start_time,
     end_time |-> end_time, key |-> key]

\* manage_record with an action outside the valid ones, create or start
\* without a description, update/hide/stop without a key: ValueError.
ManageRecordInvalid(p) ==
    /\ CanCall(p)
    /\ \E action \in ValidActions \cup {"bogus"}, key \in Opt(Keys) :
         LET a == RecordArgs(action, None, None, None, key)
         IN  /\ \/ action \notin ValidActions
                \/ action \in {"create", "start"}
                \/ action \in {"update", "hide", "stop"} /\ IsNone(key)
             /\ Finish(p, Raise(Enter("manage_record", a), "ValueError"))
    /\ budget' = budget - 1
    /\ UNCHANGED <<store, settings, clock>>

\* The arguments a caller passes with each action.  A start overwrites both
\* times before it reads them, so they are passed as None; a hide and a stop
\* overwrite the description, which is passed as None or as one text.
CreateCalls ==
    { RecordArgs(action, Some(d), s, e, None) :
        action \in {"create"}, d \in DescInputs,
        s \in Opt(TimeInputs), e \in Opt(TimeInputs) }
    \cup { RecordArgs("start", Some(d), None, None, None) : d \in DescInputs }

UpdateCalls ==
    { RecordArgs("update", d, s, e, Some(k)) :
        d \in Opt(DescInputs), s \in Opt(TimeInputs), e \in Opt(TimeInputs), k \in Keys }
    \cup { RecordArgs(action, d, s, e, Some(k)) :
             action \in {"hide", "stop"}, d \in Opt({<<"w">>}),
             s \in Opt(TimeInputs), e \in Opt(TimeInputs), k \in Keys }

\* manage_record("create") and manage_record("start"), which calls create
\* with both times set to now: one PUT of the new record under a random key.
ManageRecordCreate(p) ==
    /\ CanCall(p)
    /\ \E a \in CreateCalls, record_key \in Keys :
         LET s == IF a.action = "start" THEN Some(clock) ELSE a.start_time
             e == IF a.action = "start" THEN Some(clock) ELSE a.end_time
             record == NewRecord(record_key, Val(a.description), s, e, clock)
         IN  \E resp \in PutResponses(record_key) :
                /\ Finish(p, AfterPut(Enter("manage_record", a), record, resp, store))
                /\ store' = ServerPut(store, record, resp, clock)
    /\ budget' = budget - 1
    /\ UNCHANGED <<settings, clock>>

\* manage_record("update" | "hide" | "stop") up to the answer of
\* get_updates_since(0): the current record is found, or the tool fails.
FetchWith(p, calls) ==
    /\ CanCall(p)
    /\ \E a \in calls, status \in GetStatuses :
         LET r == [Enter("manage_record", a) EXCEPT !.calls = 1, !.status = status]
             cur == FindRecord(ServerUpdates(0), Val(a.key))
         IN  \/ /\ status # 200
                /\ Finish(p, Raise(r, "http"))
             \/ /\ status = 200 /\ IsNone(cur)
                /\ Finish(p, Raise(r, "notfound"))
             \/ /\ status = 200 /\ ~IsNone(cur)
                /\ inv' = [inv EXCEPT ![p] = [r EXCEPT !.pc = "fetched",
                                                       !.current_record = cur]]
                /\ last' = last
    /\ budget' = budget - 1
    /\ UNCHANGED <<store, settings, clock>>

ManageRecordFetch(p) == FetchWith(p, UpdateCalls)

\* The calls on the record under k1: an update of the description, of the end
\* time, of nothing, a hide and a stop.
PairCalls ==
    { RecordArgs("update", Some(<<"w">>), None, None, Some("k1")),
      RecordArgs("update", None, None, Some(0), Some("k1")),
      RecordArgs("update", None, None, None, Some("k1")),
      RecordArgs("hide", None, None, None, Some("k1")),
      RecordArgs("stop", None, None, None, Some("k1")) }

PairFetch(p) == FetchWith(p, PairCalls)

\* ManageRecordPut as an atomic read-modify-write: the merge is made over the
\* row the server holds when the PUT arrives.
ManageRecordPutAtomic(p) ==
    /\ inv[p].pc = "fetched"
    /\ LET r == inv[p]
           a == r.args
           cur == IF Val(a.key) \in DOMAIN store THEN store[Val(a.key)]
                  ELSE Val(r.current_record)
           record == UpdatedRecord(a.action, Val(a.key), a.description, a.start_time,
                                   a.end_time, cur, r.now)
       IN  \E resp \in PutResponses(record.key) :
              /\ Finish(p, AfterPut(r, record, resp, store))
              /\ store' = ServerPut(store, record, resp, clock)
    /\ UNCHANGED <<settings, clock, budget>>

\* The rest of update, hide and stop: merge and PUT.
ManageRecordPut(p) ==
    /\ inv[p].pc = "fetched"
    /\ LET r == inv[p]
           a == r.args
           record == UpdatedRecord(a.action, Val(a.key), a.description, a.start_time,
                                   a.end_time, Val(r.current_record), r.now)
       IN  \E resp \in PutResponses(record.key) :
              /\ Finish(p, AfterPut(r, record, resp, store))
              /\ store' = ServerPut(store, record, resp, clock)
    /\ UNCHANGED <<settings, clock, budget>>

(* ------------------- get_updates_since, get_server_time ---------------- *)

\* The frame after a GET answered with `status`: the tool raises on a
\* non-200 status and otherwise returns the list `items`.
AfterGet(r, status, items) ==
    LET g == [r EXCEPT !.status = status, !.calls = @ + 1]
    IN  IF status = 200
        THEN [g EXCEPT !.outcome = "ok", !.listed = items]
        ELSE Raise(g, "http")

\* get_updates_since(since): one GET of /updates.
GetUpdatesSince(p) ==
    /\ CanCall(p)
    /\ \E since \in TimeInputs \cup {MaxTime}, status \in GetStatuses :
         Finish(p, AfterGet(Enter("get_updates_since", [since |-> since]),
                            status, ServerUpdates(since)))
    /\ budget' = budget - 1
    /\ UNCHANGED <<store, settings, clock>>

\* get_server_time(): one GET of /updates since now; returns server_time.
GetServerTime(p) ==
    /\ CanCall(p)
    /\ \E status \in GetStatuses :
         LET r == AfterGet(Enter("get_server_time", <<>>), status, {})
         IN  Finish(p, IF status = 200 THEN [r EXCEPT !.result = Some(clock)] ELSE r)
    /\ budget' = budget - 1
    /\ UNCHANGED <<store, settings, clock>>

(* ------------------------------ get_records ---------------------------- *)

\* A time_period is a sequence of pieces of text; "hours:" is followed by the
\* text after the colon.
WEEK == 7 * 24 * 3600
MONTH == 30 * 24 * 3600
DAY == 86400

\* int(text) of the texts used: a ValueError is None.
ParseInt(text) ==
    CASE text = "1" -> Some(1)
      [] text = "2" -> Some(2)
      [] OTHER -> None

\* time_period.split(":")[1]
AfterColon(tp) == IF Len(tp) >= 2 THEN tp[2] ELSE ""

\* Midnight of the day of `now`.
Midnight(now) == now - (now % DAY)

\* The time periods a caller passes; None and <<>> are both falsy.
TimePeriods ==
    { <<"today">>, <<"yesterday">>, <<"week">>, <<"month">>,
      <<"hours:", "1">>, <<"hours:", "x">>, <<"hours:">>, <<"fortnight">> }

\* The time periods analyze_time is called with.
AnalyzePeriods == { <<"week">>, <<"hours:", "x">> }

\* Whether get_records raises ValueError before its request.
BadHours(time_period) ==
    /\ ~IsNone(time_period)
    /\ Val(time_period) # <<>>
    /\ StartsWith(Val(time_period), <<"hours:">>)
    /\ IsNone(ParseInt(AfterColon(Val(time_period))))

\* The range <<start_time, end_time>> get_records asks for.
TimeRange(start_time, end_time, time_period, now) ==
    LET tp == IF IsNone(time_period) THEN <<>> ELSE Val(time_period)
        se == CASE tp = <<"today">> -> <<Some(Midnight(now)), Some(now)>>
                [] tp = <<"yesterday">> -> <<Some(Midnight(now) - DAY), Some(Midnight(now))>>
                [] tp = <<"week">> -> <<Some(now - WEEK), Some(now)>>
                [] tp = <<"month">> -> <<Some(now - MONTH), Some(now)>>
                [] tp # <<>> /\ StartsWith(tp, <<"hours:">>) ->
                     <<Some(now - Val(ParseInt(AfterColon(tp))) * 3600), Some(now)>>
                [] OTHER -> <<start_time, end_time>>
        sd == IF IsNone(se[1]) /\ IsNone(se[2]) /\ tp = <<>>
              THEN <<Some(now - 24 * 3600), Some(now)>>
              ELSE se
    IN  <<OrElse(sd[1], 0), OrElse(sd[2], now)>>

\* `tag in ds`: ds contains tag as a contiguous part.
Contains(ds, tag) ==
    \E i \in 1..(Len(ds) + 1) :
        /\ i + Len(tag) - 1 <= Len(ds)
        /\ SubSeq(ds, i, i + Len(tag) - 1) = tag

\* The tag with its "#".
NormalizeTag(tag) == IF StartsWith(tag, <<"#">>) THEN tag ELSE <<"#">> \o tag

\* The records get_records keeps.
FilterByTag(records, tag) ==
    IF IsNone(tag) \/ tag = Some(<<>>)
    THEN records
    ELSE {r \in records : Contains(r.ds, NormalizeTag(Val(tag)))}

\* Tags a caller passes.
TagInputs == { <<"w">>, <<"#", "w">> }

QueryArgs(start_time, end_time, time_period, tag) ==
    [start_time |-> start_time, end_time |-> end_time,
     time_period |-> time_period, tag |-> tag]

\* The queries a caller makes: both times matter only without a known period,
\* and the tag filter is the same after every period.
QueryCalls ==
    { QueryArgs(s, e, tp, None) :
        s \in Opt(TimeInputs), e \in Opt(TimeInputs),
        tp \in {None, Some(<<"fortnight">>)} }
    \cup { QueryArgs(None, None, Some(tp), None) : tp \in TimePeriods }
    \cup { QueryArgs(None, None, Some(<<"week">>), Some(t)) : t \in TagInputs }

\* get_records as a function of its arguments and the server's answer: the
\* frame it leaves.
GetRecordsFrame(r, a, status) ==
    IF BadHours(a.time_period)
    THEN Raise(r, "ValueError")
    ELSE LET tr == TimeRange(a.start_time, a.end_time, a.time_period, r.now)
         IN  AfterGet(r, status, FilterByTag(ServerRecords(tr[1], tr[2]), a.tag))

\* get_records(...): at most one GET of /records.
GetRecords(p) ==
    /\ CanCall(p)
    /\ \E a \in QueryCalls, status \in GetStatuses :
         Finish(p, GetRecordsFrame(Enter("get_records", a), a, status))
    /\ budget' = budget - 1
    /\ UNCHANGED <<store, settings, clock>>

(* ------------------------------ analyze_time --------------------------- *)

\* The symbols str.split() takes for whitespace.
Whitespace == {SPACE, "\t"}

\* ds.split(): the maximal runs of symbols other than whitespace.
RECURSIVE Split(_)
Split(ds) ==
    IF ds = <<>> THEN <<>>
    ELSE IF Head(ds) \in Whitespace THEN Split(Tail(ds))
    ELSE LET rest == Split(Tail(ds))
         IN  IF Len(ds) >= 2 /\ ds[2] \notin Whitespace
             THEN <<(<<Head(ds)>> \o Head(rest))>> \o Tail(rest)
             ELSE <<(<<Head(ds)>>)>> \o rest

\* The words that start with "#", in order and with repetitions.
StartsWithHash(word) == StartsWith(word, <<"#">>)
TagsOf(ds) == SelectSeq(Split(ds), StartsWithHash)

\* The records analyze_time looks at.
Visible(records) == {r \in records : ~StartsWith(r.ds, HIDDEN)}

\* Sum of t2 - t1 over a set of records, in seconds.
RECURSIVE Seconds(_)
Seconds(records) ==
    IF records = {} THEN 0
    ELSE LET r == CHOOSE x \in records : TRUE
         IN  (r.t2 - r.t1) + Seconds(records \ {r})

\* tag_hours.get(tag_key, 0) and tag_hours[tag_key] = value.
DictGet(d, k) == IF k \in DOMAIN d THEN d[k] ELSE 0
DictSet(d, k, v) == [x \in DOMAIN d \cup {k} |-> IF x = k THEN v ELSE d[x]]

UNTAGGED == <<"untagged">>

\* AddToTags crediting the first tag only.
RECURSIVE AddToFirstTag(_, _, _)
AddToFirstTag(tag_hours, tags, duration) ==
    IF tags = <<>> THEN tag_hours
    ELSE DictSet(tag_hours, Head(tags), DictGet(tag_hours, Head(tags)) + duration)

\* The loop over a record's tags: the duration is added under each in turn.
RECURSIVE AddToTags(_, _, _)
AddToTags(tag_hours, tags, duration) ==
    IF tags = <<>> THEN tag_hours
    ELSE AddToTags(DictSet(tag_hours, Head(tags), DictGet(tag_hours, Head(tags)) + duration),
                   Tail(tags), duration)

\* The body of the loop over the records, for one record.  The duration is
\* kept in seconds; the hours the tool adds are these seconds / 3600.
AddRecord(tag_hours, record) ==
    LET duration == record.t2 - record.t1
        tags == TagsOf(record.ds)
    IN  IF duration < 0 THEN tag_hours
        ELSE IF tags = <<>>
             THEN DictSet(tag_hours, UNTAGGED, DictGet(tag_hours, UNTAGGED) + duration)
             ELSE AddToTags(tag_hours, tags, duration)

\* The loop over the records.
RECURSIVE SummaryLoop(_, _)
SummaryLoop(tag_hours, records) ==
    IF records = {} THEN tag_hours
    ELSE LET r == CHOOSE x \in records : TRUE
         IN  SummaryLoop(AddRecord(tag_hours, r), records \ {r})

\* The summary: tag_hours after the loop over the records that are not hidden.
Summary(records) == SummaryLoop(<<>>, Visible(records))

\* The daily table: seconds per day of t1.
Daily(records) ==
    LET valid == {r \in Visible(records) : r.t2 - r.t1 >= 0}
        days == {r.t1 \div DAY : r \in valid}
    IN  [d \in days |-> Seconds({r \in valid : r.t1 \div DAY = d})]

\* The hourly table: seconds per hour of day of t1, for all 24 hours.
Hourly(records) ==
    LET valid == {r \in Visible(records) : r.t2 - r.t1 >= 0}
    IN  [h \in 0..23 |-> Seconds({r \in valid : (r.t1 % DAY) \div 3600 = h})]

AnalysisTypes == {"summary", "daily", "hourly"}

\* analyze_time(analysis_type, time_period, tag): get_records first, then the
\* branch on analysis_type, whose last arm raises ValueError.
AnalyzeWith(p, types, periods) ==
    /\ CanCall(p)
    /\ \E analysis_type \in types,
          time_period \in periods,
          tag \in Opt(TagInputs), status \in GetStatuses :
         LET a == [analysis_type |-> analysis_type, time_period |-> Some(time_period),
                   tag |-> tag]
             g == GetRecordsFrame(Enter("analyze_time", a),
                                  QueryArgs(None, None, Some(time_period), tag), status)
             r == IF g.outcome = "error" THEN g
                  ELSE IF analysis_type = "summary"
                       THEN [g EXCEPT !.data = Summary(g.listed)]
                  ELSE IF analysis_type = "daily"
                       THEN [g EXCEPT !.data = Daily(g.listed)]
                  ELSE IF analysis_type = "hourly"
                       THEN [g EXCEPT !.data = Hourly(g.listed)]
                  ELSE Raise(g, "ValueError")
         IN  Finish(p, r)
    /\ budget' = budget - 1
    /\ UNCHANGED <<store, settings, clock>>

AnalyzeTime(p) == AnalyzeWith(p, AnalysisTypes \cup {"bogus"}, AnalyzePeriods)

\* analyze_time("summary", "week", tag).
SummarizeTime(p) == AnalyzeWith(p, {"summary"}, {<<"week">>})

(* ----------------------------- manage_settings ------------------------- *)

SettingsActions == {"get", "update"}

\* manage_settings(action, key, value).
ManageSettings(p) ==
    /\ CanCall(p)
    /\ \E action \in SettingsActions \cup {"bogus"}, key \in Opt(SettingKeys),
          value \in Opt(SettingValues) :
         LET a == [action |-> action, key |-> key, value |-> value]
             r == Enter("manage_settings", a)
         IN  \/ /\ action \notin SettingsActions
                /\ Finish(p, Raise(r, "ValueError"))
                /\ settings' = settings
             \/ /\ action = "get"
                /\ IsNone(key) /\ IsNone(value)
                /\ \E status \in GetStatuses :
                     Finish(p, AfterGet(r, status,
                                        {settings[k] : k \in DOMAIN settings}))
                /\ settings' = settings
             \/ /\ action = "update"
                /\ IsNone(key) \/ IsNone(value)
                /\ Finish(p, Raise(r, "ValueError"))
                /\ settings' = settings
             \/ /\ action = "update"
                /\ ~IsNone(key) /\ ~IsNone(value)
                /\ LET setting == [key |-> Val(key), value |-> Val(value),
                                   mt |-> clock, st |-> 0]
                   IN  \E resp \in PutResponses(setting.key) :
                          /\ Finish(p, AfterPut(r, setting, resp, settings))
                          /\ settings' = ServerPut(settings, setting, resp, clock)
    /\ budget' = budget - 1
    /\ UNCHANGED <<store, clock>>

\* Time passes.
Tick ==
    /\ clock < MaxTime
    /\ clock' = clock + 1
    /\ UNCHANGED <<store, settings, budget, inv, last>>

Next ==
    \/ \E p \in DOMAIN inv : ManageRecordInvalid(p)
    \/ \E p \in DOMAIN inv : ManageRecordCreate(p)
    \/ \E p \in DOMAIN inv : ManageRecordFetch(p)
    \/ \E p \in DOMAIN inv : ManageRecordPut(p)
    \/ \E p \in DOMAIN inv : GetUpdatesSince(p)
    \/ \E p \in DOMAIN inv : GetServerTime(p)
    \/ \E p \in DOMAIN inv : GetRecords(p)
    \/ \E p \in DOMAIN inv : AnalyzeTime(p)
    \/ \E p \in DOMAIN inv : ManageSettings(p)
    \/ Tick

Spec == Init /\ [][Next]_vars

NextPair ==
    \/ \E p \in DOMAIN inv : PairFetch(p)
    \/ \E p \in DOMAIN inv : ManageRecordPut(p)
    \/ Tick

SpecPair == InitPair /\ [][NextPair]_vars

\* Rows a summary may meet: untagged, one tag, two tags, one tag twice, hidden,
\* a word with "#" inside next to a lone "#" after a tab, and rows whose end is
\* before or at their start.
SummaryRows ==
    { [key |-> "k1", t1 |-> t[1], t2 |-> t[2], ds |-> t[3], mt |-> 1, st |-> 1] :
        t \in { <<0, 1, <<"w">> >>,
                <<0, 2, <<"#", "w">> >>,
                <<0, 1, <<"#", "w", SPACE, "#", "v">> >>,
                <<0, 1, <<"#", "w", SPACE, "#", "w">> >>,
                <<0, 2, <<"HIDDEN", SPACE, "#", "w">> >>,
                <<0, 1, <<SPACE, "w", "#", "w", "\t", "#">> >>,
                <<1, 0, <<"#", "v">> >>,
                <<1, 1, <<"#", "v">> >> } }

RowKeys == <<"k1", "k2", "k3">>

\* The stores of up to MaxRecords of these rows.
SummaryStores ==
    UNION { { [k \in D |-> [f[k] EXCEPT !.key = k]] : f \in [D -> SummaryRows] } :
              D \in { {RowKeys[i] : i \in 1..n} : n \in 0..MaxRecords } }

\* analyze_time over any of the stores.
InitSummary ==
    /\ store \in SummaryStores
    /\ settings = <<>>
    /\ clock = 1
    /\ budget = MaxCalls
    /\ inv = [p \in {"p1"} |-> IdleInv]
    /\ last = IdleInv

NextSummary ==
    \/ \E p \in DOMAIN inv : SummarizeTime(p)
    \/ Tick

SpecSummary == InitSummary /\ [][NextSummary]_vars

(* ------------------------------ properties ----------------------------- *)

UpdateFamily == {"update", "hide", "stop"}

\* The frame is that of a manage_record call with one of `actions`.
IsRecordCall(f, actions) == f.tool = "manage_record" /\ f.args.action \in actions

\* The frame is that of a manage_record call of `actions` that sent its PUT.
DidPut(f, actions) == IsRecordCall(f, actions) /\ f.puts = 1

\* The description carries the marker.
IsHidden(ds) == StartsWith(ds, HIDDEN)

\* Process p sends the PUT of its update, hide or stop in this step.
PutStep(p) == inv[p].pc = "fetched" /\ inv'[p].pc = "idle"

\* The frame of the invocation that starts in this step.
StartedFrame ==
    IF \E p \in DOMAIN inv : inv[p].pc = "idle" /\ inv'[p].pc = "fetched"
    THEN inv'[CHOOSE p \in DOMAIN inv : inv[p].pc = "idle" /\ inv'[p].pc = "fetched"]
    ELSE last'

\* C1: a write (manage_record create/start/update/hide/stop, manage_settings
\* update) whose PUT is answered 200 without its key among the accepted keys
\* ends in an error and returns nothing.
C1_RejectedWriteFails ==
    (last.puts = 1 /\ last.status = 200 /\ Val(last.sent).key \notin last.accepted)
        => (last.outcome = "error" /\ IsNone(last.result))

C1_Witness ==
    /\ DidPut(last, {"hide"})
    /\ last.status = 200
    /\ Val(last.sent).key \notin last.accepted
    /\ last.outcome = "error"

\* The frame is that of an update that passed none of description, start_time
\* and end_time and sent its PUT.
IsBareUpdate(f) ==
    /\ DidPut(f, {"update"})
    /\ IsNone(f.args.description) /\ IsNone(f.args.start_time) /\ IsNone(f.args.end_time)

\* C2 as stated: an update with no optional field writes and returns the record
\* it read in every field but modified_time, server_time included.
C2_Original ==
    (IsBareUpdate(last) /\ last.outcome = "ok") =>
        LET cur == Val(last.current_record)
            new == Val(last.result)
        IN  /\ new.key = cur.key /\ new.t1 = cur.t1 /\ new.t2 = cur.t2
            /\ new.ds = cur.ds /\ new.st = cur.st

\* C2: an update with no optional field writes, and when accepted returns, the
\* record it read in key, t1, t2 and description; its modified_time is the time
\* of the call and its server_time is 0.0, left for the server to set.
C2_BareUpdateKeepsFields ==
    IsBareUpdate(last) =>
        LET cur == Val(last.current_record)
            new == Val(last.sent)
        IN  /\ new.key = cur.key /\ new.t1 = cur.t1 /\ new.t2 = cur.t2
            /\ new.ds = cur.ds
            /\ new.mt = last.now /\ new.st = 0
            /\ last.outcome = "ok" => last.result = last.sent

C2_Witness ==
    /\ IsBareUpdate(last) /\ last.outcome = "ok"
    /\ Val(last.current_record).t2 # last.now
    /\ Val(last.current_record).mt # last.now
    /\ Val(last.current_record).st # 0

\* C3 as stated: whatever the description was, after a hide (the first or a
\* repeated one) it carries a single "HIDDEN " prefix.
C3_Original ==
    DidPut(last, {"hide"}) =>
        /\ StartsWith(Val(last.sent).ds, <<"HIDDEN", SPACE>>)
        /\ ~StartsWith(Val(last.sent).ds, <<"HIDDEN", SPACE, "HIDDEN", SPACE>>)

\* C3: a hide of a description that does not start with HIDDEN writes it with
\* one "HIDDEN " in front; a hide of a description that starts with HIDDEN
\* (followed by a space or not) writes it unchanged; the description an accepted
\* hide leaves stored is the one a further hide of it writes, so a second hide
\* in sequence leaves the description of the first; every hide sends one PUT.
C3_HideIdempotent ==
    DidPut(last, {"hide"}) =>
        LET cur == Val(last.current_record).ds
            new == Val(last.sent).ds
            k == Val(last.args.key)
        IN  /\ ~IsHidden(cur) => new = <<"HIDDEN", SPACE>> \o cur
            /\ IsHidden(cur) => new = cur
            /\ IsHidden(new)
            /\ last.calls = 2
            /\ last.outcome = "ok" =>
                  /\ store[k].ds = new
                  /\ HideDescription(store[k].ds) = new

\* A second hide of k1 in sequence: the record starts as "#w", so the first
\* hide wrote the "HIDDEN #w" the second one read and wrote again.
C3_Witness ==
    /\ DidPut(last, {"hide"}) /\ last.outcome = "ok"
    /\ last.args.key = Some("k1")
    /\ Val(last.current_record).ds = <<"HIDDEN", SPACE, "#", "w">>
    /\ Val(last.replaced).ds = <<"HIDDEN", SPACE, "#", "w">>
    /\ Val(last.sent).ds = <<"HIDDEN", SPACE, "#", "w">>
    /\ store["k1"].ds = <<"HIDDEN", SPACE, "#", "w">>

\* C4 as stated, for update, hide and stop: an accepted write over a stored
\* record that carries the HIDDEN prefix leaves it with the prefix.
C4_Original ==
    (DidPut(last, UpdateFamily) /\ last.outcome = "ok" /\ ~IsNone(last.replaced)) =>
        (IsHidden(Val(last.replaced).ds) => IsHidden(Val(last.sent).ds))

\* C4: a hide, a stop, and an update that passes no description or one that
\* starts with HIDDEN, write a description with the HIDDEN prefix whenever the
\* record they read carries it; an update that passes another description
\* writes that description, prefix or not.
C4_HiddenKept ==
    DidPut(last, UpdateFamily) =>
        LET cur == Val(last.current_record).ds
            new == Val(last.sent).ds
            d == last.args.description
        IN  IF last.args.action = "update" /\ ~IsNone(d)
            THEN new = Val(d)
            ELSE IsHidden(cur) => IsHidden(new)

C4_Witness ==
    /\ DidPut(last, {"stop"}) /\ last.outcome = "ok"
    /\ last.args.description = Some(<<"w">>)
    /\ IsHidden(Val(last.current_record).ds)
    /\ IsHidden(Val(last.sent).ds)

\* C5 as stated: a call rejected for its arguments (ValueError) has sent no
\* HTTP request.
C5_Original == last.error = "ValueError" => last.calls = 0

\* The frame is that of one of the read tools.
IsRead(f) ==
    \/ f.tool \in {"get_records", "get_updates_since", "get_server_time", "analyze_time"}
    \/ f.tool = "manage_settings" /\ f.args.action = "get"

\* C6: no step removes a stored record or setting; the PUT of an update, hide
\* or stop on key k, accepted or not, leaves the stored keys and every record
\* under another key as they were; a call of a read tool (get_records,
\* get_updates_since, get_server_time, analyze_time, manage_settings get)
\* leaves every record and setting as it was, and so does the scan that starts
\* an update, hide or stop.
C6_Frame ==
    [][ /\ DOMAIN store \subseteq DOMAIN store'
        /\ DOMAIN settings \subseteq DOMAIN settings'
        /\ \A p \in DOMAIN inv :
             PutStep(p) =>
                /\ DOMAIN store' = DOMAIN store
                /\ \A k \in DOMAIN store : k # Val(inv[p].args.key) => store'[k] = store[k]
                /\ settings' = settings
        /\ (budget' = budget - 1 /\ IsRead(StartedFrame))
              => (store' = store /\ settings' = settings)
        /\ (budget' = budget - 1 /\ IsRecordCall(StartedFrame, UpdateFamily))
              => (store' = store /\ settings' = settings) ]_vars

C6_Witness ==
    /\ DidPut(last, UpdateFamily) /\ last.outcome = "ok"
    /\ last.args.key = Some("k1")
    /\ DOMAIN store = {"k1", "k2"}
    /\ store["k1"].ds # Val(last.replaced).ds

\* C7: an accepted update, hide or stop leaves under its key the merge over the
\* record it read, also when the server held another record under the key when
\* the PUT arrived: what a concurrent writer stored in between is overwritten.
C7_LostUpdate ==
    [][ \A p \in DOMAIN inv :
          (PutStep(p) /\ last'.outcome = "ok") =>
             LET f == inv[p]
                 k == Val(f.args.key)
                 m == UpdatedRecord(f.args.action, k, f.args.description,
                                    f.args.start_time, f.args.end_time,
                                    Val(f.current_record), f.now)
             IN  store'[k] = [m EXCEPT !.st = clock] ]_vars

\* Two updates of k1 read the same record; the first one's description was
\* stored, the second one set only the end time and was accepted: the
\* description stored is again the one both had read.
C7_Witness ==
    /\ DidPut(last, {"update"}) /\ last.outcome = "ok"
    /\ IsNone(last.args.description) /\ ~IsNone(last.args.end_time)
    /\ ~IsNone(last.replaced)
    /\ Val(last.replaced).ds # Val(last.current_record).ds
    /\ Val(last.replaced).t1 = Val(last.current_record).t1
    /\ Val(last.replaced).t2 = Val(last.current_record).t2
    /\ store[Val(last.args.key)].ds = Val(last.current_record).ds
    /\ store[Val(last.args.key)].ds # Val(last.replaced).ds

\* C8 as stated: the key a create or start draws is the key of no stored
\* record, so it replaces nothing.
C8_Original == DidPut(last, {"create", "start"}) => IsNone(last.replaced)

\* C9: an update, hide or stop whose scan get_updates_since(0) is answered
\* without a record under its key fails as not found, sends no PUT and leaves
\* the records as they were; with a record under its key it goes on with that
\* record, and the record it then sends is the merge over it.
C9_NotFound ==
    [][ /\ budget' = budget - 1 =>
             LET f == StartedFrame
             IN  (IsRecordCall(f, UpdateFamily) /\ ~IsNone(f.args.key) /\ f.status = 200) =>
                    IF Val(f.args.key) \in DOMAIN store
                    THEN /\ f.pc = "fetched"
                         /\ f.current_record = Some(store[Val(f.args.key)])
                    ELSE /\ f.pc = "done" /\ f.outcome = "error" /\ f.error = "notfound"
                         /\ f.calls = 1 /\ f.puts = 0 /\ IsNone(f.sent)
                         /\ store' = store
        /\ \A p \in DOMAIN inv :
             PutStep(p) =>
                LET f == inv[p]
                IN  last'.sent = Some(UpdatedRecord(f.args.action, Val(f.args.key),
                                                    f.args.description, f.args.start_time,
                                                    f.args.end_time, Val(f.current_record),
                                                    f.now)) ]_vars

C9_Witness ==
    /\ IsRecordCall(last, UpdateFamily)
    /\ last.error = "notfound" /\ last.puts = 0
    /\ last.args.key = Some("k2")
    /\ DOMAIN store = {"k1"}

\* C10: a stop that passes no start_time sends the record an update with
\* end_time = now sends: t2 = now, with t1 and the description of the record
\* it read; and returns it when accepted.
C10_StopIsUpdate ==
    (DidPut(last, {"stop"}) /\ IsNone(last.args.start_time)) =>
        LET cur == Val(last.current_record)
            k == Val(last.args.key)
        IN  /\ last.sent = Some(UpdatedRecord("update", k, None, None, Some(last.now),
                                               cur, last.now))
            /\ last.sent = Some([key |-> k, t1 |-> cur.t1, t2 |-> last.now,
                                 ds |-> cur.ds, mt |-> last.now, st |-> 0])
            /\ last.outcome = "ok" => last.result = last.sent

C10_Witness ==
    /\ DidPut(last, {"stop"}) /\ last.outcome = "ok"
    /\ IsNone(last.args.start_time) /\ IsNone(last.args.end_time)
    /\ IsNone(last.args.description)
    /\ Val(last.current_record).t2 # last.now
    /\ Val(last.result).t2 = last.now

\* The part ds[i..j] is a word: a maximal run of symbols other than whitespace.
IsWord(ds, i, j) ==
    /\ 1 <= i /\ i <= j /\ j <= Len(ds)
    /\ \A x \in i..j : ds[x] \notin Whitespace
    /\ i = 1 \/ ds[i - 1] \in Whitespace
    /\ j = Len(ds) \/ ds[j + 1] \in Whitespace

\* The places of the words of ds that begin with "#".
TagWords(ds) ==
    { w \in (1..Len(ds)) \X (1..Len(ds)) : IsWord(ds, w[1], w[2]) /\ ds[w[1]] = "#" }

\* How many times the record's duration counts under key k: once for each of
\* its words that is k, or once under "untagged" when it has no tag.
Credits(r, k) ==
    IF TagWords(r.ds) = {}
    THEN IF k = UNTAGGED THEN 1 ELSE 0
    ELSE Cardinality({ w \in TagWords(r.ds) : SubSeq(r.ds, w[1], w[2]) = k })

\* The keys of the reference aggregation over `records`.
ReferenceKeys(records) ==
    { k \in {UNTAGGED} \cup UNION { {SubSeq(r.ds, w[1], w[2]) : w \in TagWords(r.ds)} :
                                     r \in records } :
        \E r \in records : Credits(r, k) > 0 }

\* The seconds of the reference aggregation under key k.
RECURSIVE ReferenceSeconds(_, _)
ReferenceSeconds(records, k) ==
    IF records = {} THEN 0
    ELSE LET r == CHOOSE x \in records : TRUE
         IN  Credits(r, k) * (r.t2 - r.t1) + ReferenceSeconds(records \ {r}, k)

\* `data` is the reference aggregation over `records`.
IsReference(data, records) ==
    /\ DOMAIN data = ReferenceKeys(records)
    /\ \A k \in ReferenceKeys(records) : data[k] = ReferenceSeconds(records, k)

\* The frame is that of an analyze_time summary that returned.
IsSummary(f) ==
    f.tool = "analyze_time" /\ f.args.analysis_type = "summary" /\ f.outcome = "ok"

\* C11 as stated: the summary is the aggregation over every fetched record
\* whose description does not start with HIDDEN.
C11_Original ==
    IsSummary(last) =>
        IsReference(last.data, {r \in last.listed : ~IsHidden(r.ds)})

\* C11: the summary over the fetched records is the aggregation over those
\* whose description does not start with HIDDEN and whose t2 is not before
\* their t1: the duration t2 - t1 is added in full once for each word of the
\* description that begins with "#", under that word, and under "untagged" for
\* a record without such a word; no other key appears.
C11_SummaryIsReference ==
    IsSummary(last) =>
        IsReference(last.data, {r \in last.listed : ~IsHidden(r.ds) /\ r.t2 >= r.t1})

\* A summary over a two-tag record and a record that ends before it starts:
\* each tag holds the full second of the first, nothing of the second.
C11_Witness ==
    /\ IsSummary(last)
    /\ \E r \in last.listed : r.t2 < r.t1 /\ r.ds = <<"#", "v">>
    /\ \E r \in last.listed : r.ds = <<"#", "w", SPACE, "#", "v">> /\ r.t2 - r.t1 = 1
    /\ DOMAIN last.data = { <<"#", "w">>, <<"#", "v">> }
    /\ last.data[<<"#", "w">>] = 1 /\ last.data[<<"#", "v">>] = 1

====
